---------------------------- MODULE Spec2Model ----------------------------
(***************************************************************************)
(* piker/_cacheables.py: the process-wide resource cache `cache` with its  *)
(* acquire/release context manager `maybe_open_ctx`, and the broker client *)
(* cache `open_cached_client`, and the decorator `async_lifo_cache`;       *)
(* piker/service/_daemon.py: the service starter `maybe_spawn_daemon`.     *)
(*                                                                         *)
(* Every call of one of the two context managers is one process of the     *)
(* model (a trio task running the call once).  trio schedules              *)
(* cooperatively, so an action is the code between two checkpoints.        *)
(* trio.Lock is owned by a task, hands itself to the first waiter on       *)
(* release (FIFO) and raises RuntimeError when released by a task that     *)
(* does not own it.  A nursery cancels its children when an exception      *)
(* leaves its block, and ends only when its children have.                 *)
(***************************************************************************)
EXTENDS Integers, Sequences, FiniteSets

NCalls == 3    \* calls made in a run
NKeys == 2     \* cache keys (maybe_open_ctx), broker names (open_cached_client),
               \* service names (maybe_spawn_daemon), arguments (async_lifo_cache)
MaxSize == 1   \* maxsize of the async_lifo_cache

Procs == 1..NCalls
Keys == 1..NKeys
MngrIds == 1..NCalls    \* values of id(mngr): one per call at most
None == 0

VARIABLES
    lockOwner,      \* cache.lock: the owning task, None when free
    lockQ,          \* cache.lock: the tasks parked in acquire(), FIFO
    users,          \* cache.users
    values,         \* cache.values: key -> value, None when absent
    nurseries,      \* cache.nurseries: id(mngr) -> nursery, None when absent
    no_more_users,  \* cache.no_more_users: the Event last created
    evSet,          \* the Events that are set (an Event is named by its run_ctx)
    pc,             \* where each call is
    key,            \* the call's key, or broker name
    mngr,           \* the call's id(mngr)
    val,            \* the call's local `value`, or `client`
    nurs,           \* the call's nursery `n` (a nursery is named by the call that opened it)
    path,           \* the block the call yielded from: "try", "except", or
                    \* "caught" (the except block entered from the yield)
    exc,            \* the exception propagating out of the call
    rc,             \* the state of the run_ctx task the call started
    rcCancel,       \* the run_ctx tasks cancelled by their nursery
    cLockOwner,     \* clients['_lock']: the owning task
    cLockQ,         \* clients['_lock']: the tasks parked in acquire()
    clients,        \* _cache['clients']: broker name -> client (named by the call that made it)
    consumers,      \* client._consumers
    closed,         \* the clients whose _exit_stack is closed
    sLockOwner,     \* Services.locks[name]: the owning task
    sLockQ,         \* Services.locks[name]: the tasks parked in acquire()
    registry,       \* the actor registry: service name -> registered actor
                    \* (an actor is named by the call that started it)
    actor,          \* the state of the service actor a call started
    invoked,        \* history: the calls that invoked the start routine
    pikerd,         \* the call's local `pikerd_portal`: "none" or "portal"
    started,        \* the call's local `started`: what the start routine returned
    lcache,         \* async_lifo_cache: the OrderedDict, as its <<key, value>>
                    \* items in insertion order (a value is named by the call
                    \* that computed it)
    cohort,         \* history: the construction a call was waiting on when it published
    failures,     \* history: <<key, why>> of the constructions that did not complete
    before          \* history: the cache as the call found it, when no other call was running

ctxShared == <<users, values, nurseries, no_more_users, evSet>>
ctxLock == <<lockOwner, lockQ>>
ctxVars == <<lockOwner, lockQ, users, values, nurseries, no_more_users, evSet,
             mngr, nurs, rc, rcCancel, cohort, failures, before>>
ctxRest == <<lockOwner, lockQ, users, values, nurseries, no_more_users, evSet,
             mngr, nurs, rc, rcCancel, failures, before>>
clientVars == <<cLockOwner, cLockQ, clients, consumers, closed>>
daemonVars == <<sLockOwner, sLockQ, registry, actor, invoked, pikerd, started>>
callVars == <<pc, key, val, path, exc>>
vars == <<ctxVars, clientVars, daemonVars, callVars, lcache>>

Init ==
    /\ lockOwner = None
    /\ lockQ = <<>>
    /\ users = 0
    /\ values = [k \in Keys |-> None]
    /\ nurseries = [m \in MngrIds |-> None]
    /\ no_more_users = None
    /\ evSet = {}
    /\ pc = [p \in Procs |-> "idle"]
    /\ key = [p \in Procs |-> None]
    /\ mngr = [p \in Procs |-> None]
    /\ val = [p \in Procs |-> None]
    /\ nurs = [p \in Procs |-> None]
    /\ path = [p \in Procs |-> "none"]
    /\ exc = [p \in Procs |-> "none"]
    /\ rc = [p \in Procs |-> "none"]
    /\ rcCancel = {}
    /\ cLockOwner = None
    /\ cLockQ = <<>>
    /\ clients = [k \in Keys |-> None]
    /\ consumers = [p \in Procs |-> 0]
    /\ closed = {}
    /\ sLockOwner = [s \in Keys |-> None]
    /\ sLockQ = [s \in Keys |-> <<>>]
    /\ registry = [s \in Keys |-> None]
    /\ actor = [p \in Procs |-> "none"]
    /\ invoked = {}
    /\ pikerd = [p \in Procs |-> "unset"]
    /\ started = [p \in Procs |-> "unset"]
    /\ lcache = <<>>
    /\ cohort = [p \in Procs |-> None]
    /\ failures = {}
    /\ before = [p \in Procs |-> <<>>]

(***************************************************************************)
(* trio.Lock                                                               *)
(***************************************************************************)
locked == lockOwner # None

ReleasedOwner(q) == IF q = <<>> THEN None ELSE Head(q)

ReleasedQ(q) == IF q = <<>> THEN <<>> ELSE Tail(q)

LockAcquire(p) ==
    IF locked
    THEN /\ lockQ' = Append(lockQ, p)
         /\ lockOwner' = lockOwner
    ELSE /\ lockOwner' = p
         /\ lockQ' = lockQ

LockReleaseForgotten == UNCHANGED <<lockOwner, lockQ>>

LockRelease ==
    /\ lockOwner' = ReleasedOwner(lockQ)
    /\ lockQ' = ReleasedQ(lockQ)

(***************************************************************************)
(* The callers                                                             *)
(***************************************************************************)
\* id(mngr) is unique among the mngr objects alive and free for re-use after
MngrAlive(m) == \E p \in Procs : pc[p] \notin {"idle", "done"} /\ mngr[p] = m

\* ids without an entry in cache.nurseries are interchangeable: take the least
IdOfNewMngr(m) ==
    /\ ~MngrAlive(m)
    /\ nurseries[m] = None =>
         \A m2 \in MngrIds : m2 < m => (MngrAlive(m2) \/ nurseries[m2] # None)

\* keys no call has named yet are interchangeable: take the least
KeyOfCall(k) == \A k2 \in Keys : k2 < k => \E p \in Procs : key[p] = k2

\* calls are interchangeable: they start in the order of their names
NextCall(p) == pc[p] = "idle" /\ \A q \in Procs : q < p => pc[q] # "idle"

\* a nursery accepts new tasks until its scope has ended
NurseryOpen(n) == pc[n] \notin {"idle", "done"}

(***************************************************************************)
(* maybe_open_ctx                                                          *)
(***************************************************************************)
(* a task calls maybe_open_ctx(key, mngr): await cache.lock.acquire() *)
Call(p, k, m) ==
    /\ NextCall(p)
    /\ KeyOfCall(k)
    /\ IdOfNewMngr(m)
    /\ pc' = [pc EXCEPT ![p] = "lock"]
    /\ key' = [key EXCEPT ![p] = k]
    /\ mngr' = [mngr EXCEPT ![p] = m]
    /\ before' = [before EXCEPT ![p] =
                    IF \A q \in Procs : pc[q] \in {"idle", "done"}
                    THEN <<users, values, nurseries>> ELSE <<>>]
    /\ LockAcquire(p)
    /\ UNCHANGED <<ctxShared, val, nurs, path, exc, rc, rcCancel, cohort, failures>>
    /\ UNCHANGED <<clientVars, daemonVars, lcache>>

(* the call has returned (or raised) to its caller: its locals, its mngr *)
(* object and its tasks are gone                                          *)
Returned(p) ==
    /\ pc' = [pc EXCEPT ![p] = "done"]
    /\ mngr' = [mngr EXCEPT ![p] = None]
    /\ val' = [val EXCEPT ![p] = None]
    /\ nurs' = [nurs EXCEPT ![p] = None]
    /\ path' = [path EXCEPT ![p] = "none"]
    /\ exc' = [exc EXCEPT ![p] = "none"]
    /\ rc' = [rc EXCEPT ![p] = "none"]
    /\ cohort' = [cohort EXCEPT ![p] = None]
    /\ before' = [before EXCEPT ![p] = <<>>]

FinallyNeverReleases(p) == FALSE

(* finally: `if cache.lock.locked(): cache.lock.release()` releases the   *)
(* lock when it is the task's own ...                                     *)
FinallyReleases(p) == locked /\ lockOwner = p

(* ... and raises when it is another task's *)
FinallyRaises(p) == locked /\ lockOwner # p

(* finally: `cache.no_more_users.set()` is reached; u is cache.users and v *)
(* the local `value` when the block is entered                            *)
FinallySets(p, u, v) == ~FinallyRaises(p) /\ v # None /\ u - 1 <= 0

(* the finally block, entered with cache.users = u, value = v, exception e *)
(* pending and n the nursery in use; then the end of the nursery's block: *)
(* a nursery the call opened cancels its child if an exception leaves,    *)
(* and waits for it                                                       *)
FinallyBlock(p, u, v, e, n) ==
    LET e2 == IF FinallyRaises(p) THEN "LockNotOwned" ELSE e
    IN /\ users' = u - 1
       /\ IF FinallyReleases(p) THEN LockRelease ELSE UNCHANGED ctxLock
       /\ evSet' = IF FinallySets(p, u, v) THEN evSet \cup {no_more_users} ELSE evSet
       /\ IF n = p
          THEN /\ pc' = [pc EXCEPT ![p] = "closing"]
               /\ exc' = [exc EXCEPT ![p] = e2]
               /\ rcCancel' = IF e2 # "none" /\ rc[p] = "waiting"
                              THEN rcCancel \cup {p} ELSE rcCancel
               /\ val' = [val EXCEPT ![p] = None]
               /\ path' = [path EXCEPT ![p] = "none"]
               /\ cohort' = [cohort EXCEPT ![p] = None]
               /\ UNCHANGED <<mngr, nurs, rc, before>>
          ELSE /\ Returned(p)
               /\ rcCancel' = rcCancel

(* the lock is held: open or re-use the nursery, look the key up; on a hit *)
(* count, unlock and yield, on a miss n.start(cache.run_ctx, mngr, key)    *)
Enter(p) ==
    /\ pc[p] = "lock"
    /\ lockOwner = p
    /\ LET n == IF nurseries[mngr[p]] # None THEN nurseries[mngr[p]] ELSE p
       IN /\ nurseries' = [nurseries EXCEPT ![mngr[p]] = n]
          /\ IF values[key[p]] # None
             THEN /\ val' = [val EXCEPT ![p] = values[key[p]]]
                  /\ users' = users + 1
                  /\ LockRelease
                  /\ path' = [path EXCEPT ![p] = "try"]
                  /\ pc' = [pc EXCEPT ![p] = "body"]
                  /\ nurs' = [nurs EXCEPT ![p] = n]
                  /\ UNCHANGED <<evSet, exc, rc, rcCancel, mngr, cohort, before>>
             ELSE IF n = p \/ NurseryOpen(n)
             THEN /\ rc' = [rc EXCEPT ![p] = "entering"]
                  /\ pc' = [pc EXCEPT ![p] = "starting"]
                  /\ path' = [path EXCEPT ![p] = "except"]
                  /\ nurs' = [nurs EXCEPT ![p] = n]
                  /\ UNCHANGED <<users, ctxLock, evSet, val, exc, rcCancel, mngr,
                                 cohort, before>>
             ELSE FinallyBlock(p, users, None, "NurseryClosed", n)
    /\ UNCHANGED <<values, no_more_users, key, failures>>
    /\ UNCHANGED <<clientVars, daemonVars, lcache>>

(* run_ctx: the factory was entered and produced a value; publish it *)
FactoryOk(p) ==
    /\ rc[p] = "entering"
    /\ no_more_users' = p
    /\ values' = [values EXCEPT ![key[p]] = p]
    /\ rc' = [rc EXCEPT ![p] = "waiting"]
    /\ pc' = [pc EXCEPT ![p] = "started"]
    /\ cohort' = [q \in Procs |->
                    IF q = p \/ (pc[q] = "lock" /\ key[q] = key[p])
                    THEN p ELSE cohort[q]]
    /\ UNCHANGED <<ctxLock, users, nurseries, evSet, key, mngr, val, nurs, path,
                   exc, rcCancel, failures, before>>
    /\ UNCHANGED <<clientVars, daemonVars, lcache>>

(* run_ctx: entering the factory raised ("FactoryErr"), or the caller was  *)
(* cancelled while it waited in n.start ("Cancelled"): the child unwinds   *)
(* without having published and n.start raises in the caller               *)
FactoryFail(p, why) ==
    /\ rc[p] = "entering"
    /\ rc' = [rc EXCEPT ![p] = "failed"]
    /\ pc' = [pc EXCEPT ![p] = "raised"]
    /\ exc' = [exc EXCEPT ![p] = why]
    /\ failures' = failures \cup {<<key[p], why>>}
    /\ UNCHANGED <<ctxLock, ctxShared, key, mngr, val, nurs, path, rcCancel, cohort,
                   before>>
    /\ UNCHANGED <<clientVars, daemonVars, lcache>>

(* n.start raised in the caller: the except block ends, finally runs *)
StartRaised(p) ==
    /\ pc[p] = "raised"
    /\ FinallyBlock(p, users, val[p], exc[p], nurs[p])
    /\ UNCHANGED <<values, nurseries, no_more_users, key, failures>>
    /\ UNCHANGED <<clientVars, daemonVars, lcache>>

(* n.start returned: count the user, release the lock, yield; releasing a *)
(* lock the task does not own raises, and finally runs                    *)
PostStart(p) ==
    /\ pc[p] = "started"
    /\ IF lockOwner = p
       THEN /\ val' = [val EXCEPT ![p] = p]
            /\ users' = users + 1
            /\ LockRelease
            /\ pc' = [pc EXCEPT ![p] = "body"]
            /\ UNCHANGED <<evSet, exc, rcCancel, mngr, nurs, path, rc, cohort, before>>
       ELSE FinallyBlock(p, users + 1, p, "LockNotOwned", nurs[p])
    /\ UNCHANGED <<values, nurseries, no_more_users, key, failures>>
    /\ UNCHANGED <<clientVars, daemonVars, lcache>>

(* the caller's body ends, normally or with an exception: finally runs.   *)
(* A KeyError thrown in at the yield of the try block is caught by        *)
(* `except KeyError`, which starts run_ctx.                               *)
BodyExit(p, how) ==
    /\ pc[p] = "body"
    /\ \/ /\ how = "ok"
          /\ FinallyBlock(p, users, val[p], "none", nurs[p])
       \/ /\ how = "err"
          /\ FinallyBlock(p, users, val[p], "BodyErr", nurs[p])
       \/ /\ how = "keyerr"
          /\ path[p] = "try"
          /\ IF nurs[p] = p \/ NurseryOpen(nurs[p])
             THEN /\ rc' = [rc EXCEPT ![p] = "entering"]
                  /\ pc' = [pc EXCEPT ![p] = "starting"]
                  /\ path' = [path EXCEPT ![p] = "caught"]
                  /\ UNCHANGED <<users, ctxLock, evSet, val, exc, rcCancel, mngr,
                                 nurs, cohort, before>>
             ELSE FinallyBlock(p, users, val[p], "NurseryClosed", nurs[p])
    /\ UNCHANGED <<values, nurseries, no_more_users, key, failures>>
    /\ UNCHANGED <<clientVars, daemonVars, lcache>>

(* the nursery's scope ends once its child is gone *)
Close(p) ==
    /\ pc[p] = "closing"
    /\ rc[p] \in {"none", "failed", "done"}
    /\ Returned(p)
    /\ UNCHANGED <<ctxLock, ctxShared, key, rcCancel, failures>>
    /\ UNCHANGED <<clientVars, daemonVars, lcache>>

(* run_ctx: the wait ends (Event set, or cancelled); its finally block *)
RcWake(q) ==
    /\ rc[q] = "waiting"
    /\ q \in evSet \/ q \in rcCancel
    /\ IF values[key[q]] # None
       THEN /\ values' = [values EXCEPT ![key[q]] = None]
            /\ nurseries' = [nurseries EXCEPT ![mngr[q]] = None]
       ELSE UNCHANGED <<values, nurseries>>
    /\ rc' = [rc EXCEPT ![q] = "exiting"]
    /\ UNCHANGED <<ctxLock, users, no_more_users, evSet, mngr, nurs, rcCancel,
                   cohort, failures, before>>
    /\ UNCHANGED <<callVars, clientVars, daemonVars, lcache>>

(* run_ctx: the factory's exit has released the resource *)
RcDone(q) ==
    /\ rc[q] = "exiting"
    /\ rc' = [rc EXCEPT ![q] = "done"]
    /\ UNCHANGED <<ctxLock, ctxShared, mngr, nurs, rcCancel, cohort, failures, before>>
    /\ UNCHANGED <<callVars, clientVars, daemonVars, lcache>>

Next ==
    \E p \in Procs :
        \/ \E k \in Keys, m \in MngrIds : Call(p, k, m)
        \/ Enter(p)
        \/ FactoryOk(p)
        \/ \E why \in {"FactoryErr", "Cancelled"} : FactoryFail(p, why)
        \/ StartRaised(p)
        \/ PostStart(p)
        \/ \E how \in {"ok", "err", "keyerr"} : BodyExit(p, how)
        \/ Close(p)
        \/ RcWake(p)
        \/ RcDone(p)

Spec == Init /\ [][Next]_vars

(***************************************************************************)
(* open_cached_client                                                      *)
(***************************************************************************)
CLockAcquire(p) ==
    IF cLockOwner # None
    THEN /\ cLockQ' = Append(cLockQ, p)
         /\ cLockOwner' = cLockOwner
    ELSE /\ cLockOwner' = p
         /\ cLockQ' = cLockQ

CLockRelease ==
    /\ cLockOwner' = ReleasedOwner(cLockQ)
    /\ cLockQ' = ReleasedQ(cLockQ)

(* `async with lock` ends with KeyError and `async with lock` begins again: *)
(* the lock goes to the first waiter, the task parks behind the others     *)
CLockReleaseAcquire(p) ==
    IF cLockQ = <<>>
    THEN UNCHANGED <<cLockOwner, cLockQ>>
    ELSE /\ cLockOwner' = Head(cLockQ)
         /\ cLockQ' = Append(Tail(cLockQ), p)

(* a task calls open_cached_client(brokername): `async with lock` *)
CCall(p, b) ==
    /\ NextCall(p)
    /\ KeyOfCall(b)
    /\ pc' = [pc EXCEPT ![p] = "c_lock"]
    /\ key' = [key EXCEPT ![p] = b]
    /\ CLockAcquire(p)
    /\ UNCHANGED <<clients, consumers, closed, val, path, exc>>
    /\ UNCHANGED <<ctxVars, daemonVars, lcache>>

(* the call has returned (or raised) to its caller *)
CReturned(p) ==
    /\ pc' = [pc EXCEPT ![p] = "done"]
    /\ val' = [val EXCEPT ![p] = None]
    /\ path' = [path EXCEPT ![p] = "none"]

(* the finally block, with `client` = c *)
CFinally(p, c) ==
    /\ IF c # None
       THEN /\ consumers' = [consumers EXCEPT ![c] = consumers[c] - 1]
            /\ closed' = IF consumers[c] - 1 <= 0 THEN closed \cup {c} ELSE closed
       ELSE UNCHANGED <<consumers, closed>>
    /\ CReturned(p)

(* the lock is held: look the broker name up; on a hit count, unlock and *)
(* yield; on a miss (KeyError) take the lock again                       *)
CLookup(p) ==
    /\ pc[p] = "c_lock"
    /\ cLockOwner = p
    /\ IF clients[key[p]] # None
       THEN /\ val' = [val EXCEPT ![p] = clients[key[p]]]
            /\ consumers' = [consumers EXCEPT ![clients[key[p]]] = @ + 1]
            /\ CLockRelease
            /\ path' = [path EXCEPT ![p] = "try"]
            /\ pc' = [pc EXCEPT ![p] = "c_body"]
       ELSE /\ CLockReleaseAcquire(p)
            /\ path' = [path EXCEPT ![p] = "except"]
            /\ pc' = [pc EXCEPT ![p] = "c_relock"]
            /\ UNCHANGED <<val, consumers>>
    /\ UNCHANGED <<clients, closed, key, exc>>
    /\ UNCHANGED <<ctxVars, daemonVars, lcache>>

(* the lock is held again and brokermod.get_client() was entered: store  *)
(* the client, unlock and yield.  A second yield (after a KeyError was   *)
(* thrown in at the first) leaves the generator suspended: the caller is *)
(* raised RuntimeError.                                                  *)
CFactoryOk(p) ==
    /\ pc[p] = "c_relock"
    /\ cLockOwner = p
    /\ val' = [val EXCEPT ![p] = p]
    /\ consumers' = [consumers EXCEPT ![p] = 0]
    /\ clients' = [clients EXCEPT ![key[p]] = p]
    /\ CLockRelease
    /\ pc' = [pc EXCEPT ![p] = IF path[p] = "caught" THEN "c_stuck" ELSE "c_body"]
    /\ UNCHANGED <<closed, key, path, exc>>
    /\ UNCHANGED <<ctxVars, daemonVars, lcache>>

(* the lock is held again and brokermod.get_client() raised *)
CFactoryFail(p) ==
    /\ pc[p] = "c_relock"
    /\ cLockOwner = p
    /\ CLockRelease
    /\ CFinally(p, val[p])
    /\ UNCHANGED <<clients, key, exc>>
    /\ UNCHANGED <<ctxVars, daemonVars, lcache>>

(* the caller's body ends: finally runs.  A KeyError thrown in at the    *)
(* yield of the try block is caught by `except KeyError`.                *)
CBodyExit(p, how) ==
    /\ pc[p] = "c_body"
    /\ \/ /\ how \in {"ok", "err"}
          /\ CFinally(p, val[p])
          /\ UNCHANGED <<cLockOwner, cLockQ>>
       \/ /\ how = "keyerr"
          /\ path[p] = "try"
          /\ CLockAcquire(p)
          /\ pc' = [pc EXCEPT ![p] = "c_relock"]
          /\ path' = [path EXCEPT ![p] = "caught"]
          /\ UNCHANGED <<val, consumers, closed>>
    /\ UNCHANGED <<clients, key, exc>>
    /\ UNCHANGED <<ctxVars, daemonVars, lcache>>

(* the suspended generator is finalised: its finally block runs *)
CFinalize(p) ==
    /\ pc[p] = "c_stuck"
    /\ CFinally(p, val[p])
    /\ UNCHANGED <<cLockOwner, cLockQ, clients, key, exc>>
    /\ UNCHANGED <<ctxVars, daemonVars, lcache>>

ClientNext ==
    \E p \in Procs :
        \/ \E b \in Keys : CCall(p, b)
        \/ CLookup(p)
        \/ CFactoryOk(p)
        \/ CFactoryFail(p)
        \/ \E how \in {"ok", "err", "keyerr"} : CBodyExit(p, how)
        \/ CFinalize(p)

SpecClient == Init /\ [][ClientNext]_vars

CachesNext == Next \/ ClientNext

SpecCaches == Init /\ [][CachesNext]_vars

(***************************************************************************)
(* maybe_spawn_daemon                                                      *)
(***************************************************************************)
SLockAcquire(p, s) ==
    IF sLockOwner[s] # None
    THEN /\ sLockQ' = [sLockQ EXCEPT ![s] = Append(@, p)]
         /\ sLockOwner' = sLockOwner
    ELSE /\ sLockOwner' = [sLockOwner EXCEPT ![s] = p]
         /\ sLockQ' = sLockQ

SLockRelease(s) ==
    /\ sLockOwner' = [sLockOwner EXCEPT ![s] = ReleasedOwner(sLockQ[s])]
    /\ sLockQ' = [sLockQ EXCEPT ![s] = ReleasedQ(sLockQ[s])]

(* a task calls maybe_spawn_daemon(service_name, ...): `await lock.acquire()` *)
DCall(p, s) ==
    /\ NextCall(p)
    /\ KeyOfCall(s)
    /\ pc' = [pc EXCEPT ![p] = "d_lock"]
    /\ key' = [key EXCEPT ![p] = s]
    /\ SLockAcquire(p, s)
    /\ UNCHANGED <<registry, actor, invoked, pikerd, started, val, path, exc>>
    /\ UNCHANGED <<ctxVars, clientVars, lcache>>

(* the call has returned to its caller, or raised e *)
DReturned(p, e) ==
    /\ pc' = [pc EXCEPT ![p] = "done"]
    /\ val' = [val EXCEPT ![p] = None]
    /\ path' = [path EXCEPT ![p] = "none"]
    /\ exc' = [exc EXCEPT ![p] = e]
    /\ cohort' = [cohort EXCEPT ![p] = None]
    /\ pikerd' = [pikerd EXCEPT ![p] = "unset"]
    /\ started' = [started EXCEPT ![p] = "unset"]

DFoundLockKept(p) ==
    /\ val' = [val EXCEPT ![p] = registry[key[p]]]
    /\ UNCHANGED <<sLockOwner, sLockQ>>
    /\ path' = [path EXCEPT ![p] = "found"]
    /\ pc' = [pc EXCEPT ![p] = "d_body"]

(* `if portal is not None`: unlock and yield the portal found *)
DFound(p) ==
    /\ val' = [val EXCEPT ![p] = registry[key[p]]]
    /\ SLockRelease(key[p])
    /\ path' = [path EXCEPT ![p] = "found"]
    /\ pc' = [pc EXCEPT ![p] = "d_body"]

(* the lock is held: `async with find_service(service_name) as portal`;    *)
(* found: DFound; not found: go on to maybe_open_pikerd                    *)
DFind(p) ==
    /\ pc[p] = "d_lock"
    /\ sLockOwner[key[p]] = p
    /\ IF registry[key[p]] # None
       THEN DFound(p)
       ELSE /\ pc' = [pc EXCEPT ![p] = "d_spawn"]
            /\ UNCHANGED <<sLockOwner, sLockQ, val, path>>
    /\ UNCHANGED <<registry, actor, invoked, pikerd, started, key, exc, cohort>>
    /\ UNCHANGED <<ctxRest, clientVars, lcache>>

(* `async with maybe_open_pikerd(...) as pikerd_portal`: None when this   *)
(* process is pikerd (root = "self") or no pikerd is reachable and this    *)
(* process becomes it (root = "absent"), else a portal to the root pikerd  *)
DOpenPikerd(p, root) ==
    /\ pc[p] = "d_spawn"
    /\ pikerd' = [pikerd EXCEPT ![p] = IF root = "remote" THEN "portal" ELSE "none"]
    /\ pc' = [pc EXCEPT ![p] = "d_start"]
    /\ UNCHANGED <<sLockOwner, sLockQ, registry, actor, invoked, started>>
    /\ UNCHANGED <<key, val, path, exc, cohort>>
    /\ UNCHANGED <<ctxRest, clientVars, lcache>>

StartRouteLocalOnly(pp) == "local"

(* `if pikerd_portal is None`: the start routine is called here, else it   *)
(* is run by the root through pikerd_portal.run                            *)
StartRoute(pp) == IF pp = "none" THEN "local" ELSE "remote"

(* the start routine is awaited, by the route StartRoute: it starts the    *)
(* service actor and returns True (res = "true"), returns False having     *)
(* started nothing (res = "false"), or raises (res = "raise"); the value   *)
(* returned is logged only, an exception leaves maybe_spawn_daemon as it is *)
DStart(p, res) ==
    /\ pc[p] = "d_start"
    /\ invoked' = invoked \cup {p}
    /\ IF res = "raise"
       THEN /\ DReturned(p, IF StartRoute(pikerd[p]) = "local"
                            THEN "StartErr" ELSE "RemoteErr")
            /\ UNCHANGED actor
       ELSE /\ actor' = IF res = "true" THEN [actor EXCEPT ![p] = "started"] ELSE actor
            /\ started' = [started EXCEPT ![p] = res]
            /\ path' = [path EXCEPT ![p] = StartRoute(pikerd[p])]
            /\ pc' = [pc EXCEPT ![p] = "d_wait"]
            /\ UNCHANGED <<val, exc, cohort, pikerd>>
    /\ UNCHANGED <<sLockOwner, sLockQ, registry, key>>
    /\ UNCHANGED <<ctxRest, clientVars, lcache>>

(* the started actor registers its name *)
DRegister(a) ==
    /\ actor[a] = "started"
    /\ actor' = [actor EXCEPT ![a] = "running"]
    /\ registry' = [registry EXCEPT ![key[a]] = a]
    /\ UNCHANGED <<sLockOwner, sLockQ, invoked, pikerd, started>>
    /\ UNCHANGED <<ctxVars, clientVars, callVars, lcache>>

DWaitLockKept(p) ==
    /\ pc[p] = "d_wait"
    /\ registry[key[p]] # None
    /\ val' = [val EXCEPT ![p] = registry[key[p]]]
    /\ pc' = [pc EXCEPT ![p] = "d_body"]
    /\ UNCHANGED <<sLockOwner, sLockQ, cohort>>
    /\ UNCHANGED <<registry, actor, invoked, pikerd, started, key, path, exc>>
    /\ UNCHANGED <<ctxRest, clientVars, lcache>>

(* `async with tractor.wait_for_actor(service_name) as portal`: the name   *)
(* is registered; unlock and yield the portal                              *)
DWait(p) ==
    /\ pc[p] = "d_wait"
    /\ registry[key[p]] # None
    /\ val' = [val EXCEPT ![p] = registry[key[p]]]
    /\ SLockRelease(key[p])
    /\ pc' = [pc EXCEPT ![p] = "d_body"]
    /\ cohort' = [q \in Procs |->
                    IF pc[q] = "d_lock" /\ key[q] = key[p]
                    THEN registry[key[p]] ELSE cohort[q]]
    /\ UNCHANGED <<registry, actor, invoked, pikerd, started, key, path, exc>>
    /\ UNCHANGED <<ctxRest, clientVars, lcache>>

(* the caller's body ends.  After a registry hit the call returns; after a *)
(* start, a body that ended normally is followed by                        *)
(* `await portal.cancel_actor()`, an exception leaves at the yield         *)
DBodyExit(p, how) ==
    /\ pc[p] = "d_body"
    /\ actor' = IF how = "ok" /\ path[p] # "found" /\ actor[val[p]] = "running"
                THEN [actor EXCEPT ![val[p]] = "cancelling"]
                ELSE actor
    /\ DReturned(p, IF how = "ok" THEN "none" ELSE "BodyErr")
    /\ UNCHANGED <<sLockOwner, sLockQ, registry, invoked, key>>
    /\ UNCHANGED <<ctxRest, clientVars, lcache>>

(* a cancelled actor exits: its name leaves the registry *)
DActorExit(a) ==
    /\ actor[a] = "cancelling"
    /\ actor' = [actor EXCEPT ![a] = "gone"]
    /\ registry' = [registry EXCEPT ![key[a]] = IF @ = a THEN None ELSE @]
    /\ UNCHANGED <<sLockOwner, sLockQ, invoked, pikerd, started>>
    /\ UNCHANGED <<ctxVars, clientVars, callVars, lcache>>

DaemonNext ==
    \E p \in Procs :
        \/ \E s \in Keys : DCall(p, s)
        \/ DFind(p)
        \/ \E root \in {"self", "absent", "remote"} : DOpenPikerd(p, root)
        \/ \E res \in {"true", "false", "raise"} : DStart(p, res)
        \/ DRegister(p)
        \/ DWait(p)
        \/ \E how \in {"ok", "err"} : DBodyExit(p, how)
        \/ DActorExit(p)

SpecDaemon == Init /\ [][DaemonNext]_vars

(***************************************************************************)
(* async_lifo_cache                                                        *)
(***************************************************************************)
\* `key in cache`
LHas(c, k) == \E i \in 1..Len(c) : c[i][1] = k

\* `cache[key]`
LGet(c, k) == LET i == CHOOSE i \in 1..Len(c) : c[i][1] = k IN c[i][2]

\* `cache.popitem()`: the item added last is removed
LPopItem(c) == SubSeq(c, 1, Len(c) - 1)

\* `cache[key] = v`: a new key is added last, a present key keeps its place
LSetItem(c, k, v) ==
    IF LHas(c, k)
    THEN [i \in 1..Len(c) |-> IF c[i][1] = k THEN <<k, v>> ELSE c[i]]
    ELSE Append(c, <<k, v>>)

(* a task calls wrapper(args): a hit returns cache[key]; a miss discards  *)
(* the last item when the cache is full, then awaits fn(args)             *)
LCall(p, a) ==
    /\ NextCall(p)
    /\ KeyOfCall(a)
    /\ key' = [key EXCEPT ![p] = a]
    /\ IF LHas(lcache, a)
       THEN /\ val' = [val EXCEPT ![p] = LGet(lcache, a)]
            /\ pc' = [pc EXCEPT ![p] = "done"]
            /\ path' = [path EXCEPT ![p] = "try"]
            /\ UNCHANGED lcache
       ELSE /\ lcache' = IF Len(lcache) >= MaxSize THEN LPopItem(lcache) ELSE lcache
            /\ pc' = [pc EXCEPT ![p] = "l_await"]
            /\ path' = [path EXCEPT ![p] = "except"]
            /\ UNCHANGED val
    /\ UNCHANGED exc
    /\ UNCHANGED <<ctxVars, clientVars, daemonVars>>

(* fn(args) returns: `cache[key] = ...; return cache[key]` *)
LStore(p) ==
    /\ pc[p] = "l_await"
    /\ lcache' = LSetItem(lcache, key[p], p)
    /\ val' = [val EXCEPT ![p] = p]
    /\ pc' = [pc EXCEPT ![p] = "done"]
    /\ UNCHANGED <<key, path, exc>>
    /\ UNCHANGED <<ctxVars, clientVars, daemonVars>>

(* fn(args) raises: nothing is stored *)
LRaise(p) ==
    /\ pc[p] = "l_await"
    /\ pc' = [pc EXCEPT ![p] = "done"]
    /\ exc' = [exc EXCEPT ![p] = "FnErr"]
    /\ UNCHANGED <<key, val, path, lcache>>
    /\ UNCHANGED <<ctxVars, clientVars, daemonVars>>

LifoNext ==
    \E p \in Procs :
        \/ \E a \in Keys : LCall(p, a)
        \/ LStore(p)
        \/ LRaise(p)

SpecLifo == Init /\ [][LifoNext]_vars

(***************************************************************************)
(* Properties                                                              *)
(***************************************************************************)

\* a call for key k between its call and the end of its finally block
InUse(k) ==
    \E p \in Procs :
        key[p] = k /\ pc[p] \in {"lock", "starting", "started", "raised", "body"}

\* the task of construction q has been told to unwind
Signalled(q) == q \in evSet \/ q \in rcCancel

\* C1: single flight.  A call that was waiting for cache.lock on key k when
\* the construction of k published its value (and whose body raised no
\* KeyError) starts no construction of its own, so the factory is entered
\* once, and is yielded the published value.
C1_SingleFlight ==
    \A p \in Procs :
        (cohort[p] \notin {None, p} /\ path[p] # "caught") =>
            /\ rc[p] = "none"
            /\ pc[p] = "body" => val[p] = cohort[p]

\* C2: with one key in use and no failed construction, an entry is not torn
\* down (not signalled, its run_ctx still blocked, the key still published)
\* while a call that was yielded that entry has not released it.
C2_TeardownAfterLastRelease ==
    (failures = {} /\ \A p \in Procs : key[p] \in {None, 1}) =>
        \A p \in Procs :
            pc[p] = "body" =>
                /\ rc[val[p]] = "waiting"
                /\ ~Signalled(val[p])
                /\ values[key[p]] = val[p]

\* C3: the shutdown signal of an entry is set only by a release that brings
\* cache.users to 0, and not while a call still holds that entry.
C3_SignalOnlyOnLastRelease ==
    [][\A q \in Procs :
          (q \notin evSet /\ q \in evSet') =>
              /\ users' = 0
              /\ \A h \in Procs : ~(pc'[h] = "body" /\ val'[h] = q)]_vars

\* C4: when the factory fails under the lock the key is left unpublished, and
\* a later call for that key is not refused by n.start (it runs a
\* construction of its own, which fails only if its own factory fails).
C4_FailureThenRetry ==
    [][/\ \A p \in Procs :
            (pc[p] = "raised" /\ lockOwner = p) => values[key[p]] = None
       /\ \A p \in Procs :
            (pc[p] = "lock" /\ <<key[p], "FactoryErr">> \in failures) =>
                pc'[p] # "done"]_vars

\* C5: cache.users never goes below zero.
C5_UsersNonNegative == users >= 0

\* C6: a call whose factory failed, made while no other call was running,
\* leaves cache.users, cache.values, cache.nurseries and the lock as it
\* found them.
C6_FailureLeavesNoTrace ==
    \A p \in Procs :
        ( /\ pc[p] = "closing"
          /\ exc[p] = "FactoryErr"
          /\ before[p] # <<>>
          /\ \A q \in Procs \ {p} : pc[q] \in {"idle", "done"} ) =>
            /\ <<users, values, nurseries>> = before[p]
            /\ ~locked
            /\ lockQ = <<>>

\* C7: once no call uses key k any more, the construction task of k has been
\* told to unwind, also while another key is still held.
C7_EntryDiesWithItsOwnHolders ==
    \A q \in Procs :
        ( /\ rc[q] = "waiting"
          /\ ~InUse(key[q])
          /\ \E h \in Procs : key[h] # key[q] /\ pc[h] = "body" ) =>
            Signalled(q)

\* C8: once every call has released (cache.users is back to 0), every
\* construction task has been told to unwind.
C8_AllReleasedAllSignalled ==
    (users = 0 /\ \A p \in Procs : pc[p] \in {"idle", "closing", "done"}) =>
        \A q \in Procs : rc[q] = "waiting" => Signalled(q)

\* C9: a call whose caller is in its body (maybe_open_ctx or
\* open_cached_client, hit path or miss path) does not own the cache's lock.
C9_LockNotHeldInBody ==
    \A p \in Procs :
        pc[p] \in {"body", "c_body"} => (lockOwner # p /\ cLockOwner # p)

C9_Witness ==
    \E p, q, r \in Procs :
        /\ pc[p] = "body" /\ path[p] = "except"
        /\ pc[q] = "body" /\ path[q] = "try"
        /\ pc[r] = "c_body"

\* C10: a maybe_open_ctx call whose finally block has run neither owns
\* cache.lock nor waits for it, however it left.
C10_LockNotLeftHeld ==
    \A p \in Procs :
        pc[p] \in {"closing", "done"} =>
            (lockOwner # p /\ \A i \in 1..Len(lockQ) : lockQ[i] # p)

C10_Witness ==
    \E p, q, r \in Procs :
        /\ pc[p] = "closing" /\ exc[p] = "FactoryErr"
        /\ pc[q] = "closing" /\ exc[q] = "Cancelled"
        /\ pc[r] = "starting" /\ lockOwner = r

\* C11: the unlock in the finally block of a call that released cache.lock
\* on its way to the yield is never attempted while another task owns the
\* lock.
C11_CleanupUnlockIdempotent ==
    [][\A p \in Procs :
          (pc[p] = "body" /\ pc'[p] \in {"closing", "done"}) =>
              ~(locked /\ lockOwner # p)]_vars

\* C12: cache.values changes (a value is published, a key is removed) only
\* in a step taken while cache.lock is held.
C12_TableChangesUnderLock ==
    [][values' # values => locked]_vars

\* C13: a call yielded from the miss path (flag False) holds the value its
\* own construction published; a call that was blocked on the lock when the
\* construction for its key published v (and whose body raised no KeyError)
\* takes the hit path only (flag True) and is yielded that v.
C13_YieldedFlagAndValue ==
    \A p \in Procs :
        /\ (pc[p] = "body" /\ path[p] = "except") => val[p] = p
        /\ (cohort[p] \notin {None, p} /\ path[p] # "caught") =>
              /\ path[p] \in {"none", "try"}
              /\ pc[p] = "body" => val[p] = cohort[p]

\* C14: two open_cached_client calls for the same broker name that are in
\* their bodies together hold the same client object: get_client() was
\* entered once for them.
C14_ClientSingleConstruction ==
    \A p, q \in Procs :
        (pc[p] = "c_body" /\ pc[q] = "c_body" /\ key[p] = key[q]) => val[p] = val[q]

\* C15: a step that closes a client's exit stack leaves no call inside its
\* open_cached_client body with that client.
C15_ClientClosedByLastConsumer ==
    [][\A c \in Procs :
          (c \notin closed /\ c \in closed') =>
              \A p \in Procs : ~(pc'[p] = "c_body" /\ val'[p] = c)]_vars

\* C16: two calls for one service name are never both past the registry
\* check and before the yield; and a call that was blocked on the name's lock
\* when the starting call was yielded the service's portal does not invoke
\* the start routine itself and is yielded a portal to that same service.
C16_SpawnSingleFlight ==
    /\ \A p, q \in Procs :
          (p # q /\ key[p] = key[q] /\ pc[p] \in {"d_spawn", "d_start", "d_wait"}) =>
              pc[q] \notin {"d_spawn", "d_start", "d_wait"}
    /\ \A q \in Procs :
          cohort[q] # None =>
              /\ q \notin invoked
              /\ pc[q] = "d_body" => val[q] = cohort[q]

\* C17: a call that was raised the failure of the start routine (local or
\* remote) has left the lock of its service name released.
C17_StartFailureReleasesLock ==
    \A p \in Procs :
        (pc[p] = "done" /\ exc[p] \in {"StartErr", "RemoteErr"}) =>
            sLockOwner[key[p]] # p

\* C18: a running service is still running after a call leaves its
\* maybe_spawn_daemon scope.
C18_ServiceOutlivesRequester ==
    [][\A p, a \in Procs :
          (pc[p] = "d_body" /\ pc'[p] = "done" /\ actor[a] = "running") =>
              actor'[a] = "running"]_vars

\* C19: once a call has started the service of a name and been yielded its
\* portal, no registry check for that name misses (so the start routine is
\* not invoked again).
C19_LaterCallsHitRegistry ==
    [][\A q \in Procs :
          (pc[q] = "d_lock" /\ pc'[q] = "d_spawn") =>
              ~\E a \in Procs :
                  /\ a # q
                  /\ key[a] = key[q]
                  /\ actor[a] # "none"
                  /\ pc[a] \in {"d_body", "done"}]_vars

\* C20: a call yielded from the registry-hit path does not own the lock of
\* its service name, has invoked no start routine (local or remote), and
\* holds a portal (not None).
C20_RegistryHit ==
    \A p \in Procs :
        (pc[p] = "d_body" /\ path[p] = "found") =>
            /\ sLockOwner[key[p]] # p
            /\ p \notin invoked
            /\ actor[p] = "none"
            /\ val[p] # None

C20_Witness ==
    \E p, q \in Procs :
        /\ pc[p] = "d_body" /\ path[p] = "found"
        /\ pc[q] = "d_lock" /\ sLockOwner[key[p]] = q

\* C21: a maybe_spawn_daemon call whose caller is in its body, after a
\* registry hit or after a start, does not own the lock of its service name
\* (nor any other service lock).
C21_ServiceLockNotHeldInBody ==
    \A p \in Procs :
        pc[p] = "d_body" => \A s \in Keys : sLockOwner[s] # p

C21_Witness ==
    \E p, q \in Procs :
        /\ pc[p] = "d_body" /\ path[p] = "found"
        /\ pc[q] = "d_body" /\ path[q] \in {"local", "remote"}

\* C22: a call on the miss path waits for the service to become
\* discoverable, and is yielded its portal, only when the start routine has
\* returned True.
C22_RunningOnlyAfterSuccess ==
    \A p \in Procs :
        (pc[p] = "d_wait" \/ (pc[p] = "d_body" /\ path[p] # "found")) =>
            started[p] = "true"

\* C23: a call past the start step has invoked the start routine, by one
\* route: in this process when its pikerd_portal is None, through the
\* root's portal otherwise; a call yielded from a registry hit by no route.
C23_StartByOneRoute ==
    \A p \in Procs :
        /\ pc[p] \in {"d_wait", "d_body"} =>
              \/ path[p] = "found" /\ p \notin invoked /\ pikerd[p] = "unset"
              \/ path[p] = "local" /\ p \in invoked /\ pikerd[p] = "none"
              \/ path[p] = "remote" /\ p \in invoked /\ pikerd[p] = "portal"
        /\ pc[p] \in {"d_lock", "d_spawn", "d_start"} => p \notin invoked

C23_Witness ==
    \E p, q \in Procs :
        /\ pc[p] = "d_body" /\ path[p] = "local"
        /\ pc[q] = "d_wait" /\ path[q] = "remote" /\ pikerd[q] = "portal"

\* C24: every nursery recorded in cache.nurseries is still open, every
\* published key has its run_ctx task blocked in the wait, and no two run_ctx
\* tasks are waiting for the same key.
C24_NurseryTable ==
    /\ \A m \in MngrIds : nurseries[m] # None => NurseryOpen(nurseries[m])
    /\ \A k \in Keys : values[k] # None => rc[values[k]] = "waiting"
    /\ \A p, q \in Procs :
          (p # q /\ rc[p] = "waiting" /\ rc[q] = "waiting") => key[p] # key[q]

\* C25: a call is yielded from the hit path only for an entry whose
\* shutdown signal has not been set.
C25_NoHitOnDyingEntry ==
    [][\A p \in Procs :
          (pc[p] = "lock" /\ pc'[p] = "body") => values[key[p]] \notin evSet]_vars

\* C26: when the body of a caller of maybe_open_ctx or open_cached_client
\* ends, with whatever exception, the call goes to its finally block and
\* returns: it does not start a construction or take the lock again.
C26_BodyErrorPropagates ==
    [][\A p \in Procs :
          /\ pc[p] = "body" => pc'[p] \in {"body", "closing", "done"}
          /\ pc[p] = "c_body" => pc'[p] \in {"c_body", "done"}]_vars

\* C27: the exit of the call that constructed an entry completes only when
\* its construction task has unwound: the key no longer maps to its value and
\* no call still holds that value.
C27_ConstructorExitsLast ==
    [][\A p \in Procs :
          (pc[p] = "closing" /\ pc'[p] = "done" /\ rc[p] # "none") =>
              /\ rc[p] \in {"failed", "done"}
              /\ values[key[p]] # p
              /\ \A h \in Procs : ~(pc[h] = "body" /\ val[h] = p)]_vars

\* C28: a call of open_cached_client is never yielded a client whose exit
\* stack has been closed.
C28_NoClosedClientYielded ==
    [][\A p \in Procs :
          (pc[p] # "c_body" /\ pc'[p] = "c_body") => val'[p] \notin closed']_vars

\* C29: the step in which maybe_spawn_daemon cancels a running service
\* leaves no call inside its body with a portal to that service.
C29_NoCancelWhileHeld ==
    [][\A a \in Procs :
          (actor[a] = "running" /\ actor'[a] = "cancelling") =>
              \A h \in Procs : ~(pc'[h] = "d_body" /\ val'[h] = a)]_vars

\* C30: the async_lifo_cache never holds more than maxsize items, and an
\* item that is discarded is the one added last.
C30_LifoCacheBounded ==
    [][/\ Len(lcache') <= MaxSize
       /\ Len(lcache') < Len(lcache) => lcache' = SubSeq(lcache, 1, Len(lcache) - 1)]_vars

=============================================================================
